---------------------------- MODULE Spec2Model ----------------------------
(***************************************************************************)
(* Model of youtube-downloader.py: one invocation chain of main(), from    *)
(* argument parsing through the optional yt-dlp self-update and restart,   *)
(* URL intake (link file + command line, de-duplicated), the session log,  *)
(* the audio and video driver calls with their progress callbacks, to the  *)
(* summary and the process exit status.                                    *)
(*                                                                         *)
(* Strings whose characters matter (link-file lines, URLs) are sequences   *)
(* of one-character strings.  The external library (YoutubeDL.download),   *)
(* pip, the file system and os.execvpe are the environment: their          *)
(* outcomes are chosen nondeterministically.                               *)
(***************************************************************************)
EXTENDS Integers, Sequences, FiniteSets

VARIABLES
    args,          \* argparse result: video, audio, file, urls, auto_update
    linkFile,      \* the file named by -f: [exists, lines]
    env,           \* value of os.environ["YTDLP_UPDATED"] ("" when unset)
    pc,            \* position of the running process in main()
    restarts,      \* number of os.execvpe self-restarts in this chain
    updateRuns,    \* number of times pip was run in this chain
    lastUpdate,    \* auto_update_yt_dlp's pip outcome ("none" outside it)
    links,         \* return value of read_links_from_file
    urls,          \* the local `urls` of main() after de-duplication
    counter,       \* the global counter dict: done, failed, total
    logfile_path,  \* the global logfile_path
    log,           \* lines appended to download_log.txt by this chain
    logErrors,     \* exceptions swallowed inside write_log
    helpPrinted,   \* parser.print_help() was called
    exit_code,     \* the local exit_code of main()
    calls,         \* ydl.download calls made so far: [kind, urls]
    outcome,       \* per media kind, how its ydl.download call ended
    hookCalls,     \* progress-hook invocations during the current call
    units,         \* per media kind, "finished" signals during its call
    summary,       \* the numbers printed by the summary step
    exitStatus,    \* process exit status (-1 while running)
    exitMode       \* how the process ended

vars == <<args, linkFile, env, pc, restarts, updateRuns, lastUpdate, links,
          urls, counter, logfile_path, log, logErrors, helpPrinted,
          exit_code, calls, outcome, hookCalls, units, summary, exitStatus,
          exitMode>>

-----------------------------------------------------------------------------
(* Bounds *)

MaxMainFile == 1     \* lines of the link file, full-run specification
MaxMainCli == 1      \* positional URLs, full-run specification
MaxHooks == 2        \* progress-hook invocations per driver call
MaxRestarts == 2     \* cap on self-restarts explored
MaxFileChars == 4    \* characters of the link file, intake specification
MaxFileLines == 4    \* lines of the link file, intake specification
MaxDedupFile == 3    \* file URLs, intake specification
MaxDedupCli == 2     \* positional URLs, intake specification

-----------------------------------------------------------------------------
(* Input alphabets *)

Whitespace == {" "}
Chars == {" ", "#", "a"}
DedupUrls == {<<"a">>, <<"b">>, <<"c">>}
MainLines == {<<"#", "a">>, <<" ", "b">>}
MainUrls == {<<"a">>}
Kinds == {"audio", "video"}
Statuses == {"downloading", "finished"}
UpdateOutcomes == {"raise", "fail", "nochange", "changed"}
DownloadOutcomes == {"ok", "nonzero", "raised"}

SeqsUpTo(S, n) == UNION {[1..k -> S] : k \in 0..n}

RECURSIVE FilesWithin(_, _)
FilesWithin(chars, lines) ==
    IF lines = 0 THEN {<<>>}
    ELSE {<<>>} \cup
         UNION {{<<l>> \o f : f \in FilesWithin(chars - Len(l), lines - 1)} :
                l \in SeqsUpTo(Chars, chars)}

-----------------------------------------------------------------------------
(* read_links_from_file *)

RECURSIVE lstrip(_)
lstrip(s) ==
    IF s = <<>> THEN s
    ELSE IF Head(s) \in Whitespace THEN lstrip(Tail(s)) ELSE s

RECURSIVE rstrip(_)
rstrip(s) ==
    IF s = <<>> THEN s
    ELSE IF s[Len(s)] \in Whitespace THEN rstrip(SubSeq(s, 1, Len(s) - 1))
    ELSE s

stripLeftOnly(s) == lstrip(s)

strip(s) == rstrip(lstrip(s))

\* `not s or s.startswith("#")`
SkipLine(s) == s = <<>> \/ Head(s) = "#"

RECURSIVE ReadLoop(_, _)
ReadLoop(lines, acc) ==
    IF lines = <<>> THEN acc
    ELSE LET s == strip(Head(lines))
         IN  IF SkipLine(s) THEN ReadLoop(Tail(lines), acc)
             ELSE ReadLoop(Tail(lines), Append(acc, s))

read_links_from_file(lines) == ReadLoop(lines, <<>>)

FileFoundAlways == FALSE

\* the FileNotFoundError branch: -f names a path that does not exist
FileNotFound == args.file /\ ~linkFile.exists

-----------------------------------------------------------------------------
(* URL collection and de-duplication *)

Collect(fromFile, fromCli) == fromFile \o fromCli

RECURSIVE DedupeLoop(_, _, _)
DedupeLoop(us, seen, acc) ==
    IF us = <<>> THEN acc
    ELSE IF Head(us) \in seen THEN DedupeLoop(Tail(us), seen, acc)
    ELSE DedupeLoop(Tail(us), seen \cup {Head(us)}, Append(acc, Head(us)))

RECURSIVE DedupeKeepLast(_)
DedupeKeepLast(us) ==
    IF us = <<>> THEN <<>>
    ELSE IF \E i \in 2..Len(us) : us[i] = Head(us)
         THEN DedupeKeepLast(Tail(us))
         ELSE <<Head(us)>> \o DedupeKeepLast(Tail(us))

Dedupe(us) == DedupeLoop(us, {}, <<>>)

NoLinksNever(u) == FALSE

\* `if not urls:`
NoLinks(u) == u = <<>>

-----------------------------------------------------------------------------
(* Media-kind selection *)

want_video_flag_only == args.video

want_video == args.video \/ (~args.video /\ ~args.audio)

want_audio == args.audio \/ (~args.video /\ ~args.audio)

-----------------------------------------------------------------------------
(* write_log *)

LogSet(path) == path # "None"

\* the log after write_log(line); ok = FALSE: the append raised (swallowed)
WriteLog(path, lg, line, ok) ==
    IF LogSet(path) /\ ok THEN Append(lg, line) ELSE lg

WriteErr(path, ok) == IF LogSet(path) /\ ~ok THEN 1 ELSE 0

-----------------------------------------------------------------------------
(* Initial states *)

ZeroCounter == [done |-> 0, failed |-> 0, total |-> 0]

ProcessStart ==
    /\ pc = "auto_update"
    /\ restarts = 0
    /\ updateRuns = 0
    /\ lastUpdate = "none"
    /\ links = <<>>
    /\ urls = <<>>
    /\ counter = ZeroCounter
    /\ logfile_path = "None"
    /\ log = <<>>
    /\ logErrors = 0
    /\ helpPrinted = FALSE
    /\ exit_code = 0
    /\ calls = <<>>
    /\ outcome = [k \in Kinds |-> "none"]
    /\ hookCalls = 0
    /\ units = [k \in Kinds |-> 0]
    /\ summary = <<>>
    /\ exitStatus = -1
    /\ exitMode = "running"

MainFiles ==
    {[exists |-> FALSE, lines |-> <<>>]} \cup
    {[exists |-> TRUE, lines |-> f] : f \in SeqsUpTo(MainLines, MaxMainFile)}

Init ==
    /\ args \in [video : BOOLEAN, audio : BOOLEAN, file : BOOLEAN,
                 urls : SeqsUpTo(MainUrls, MaxMainCli),
                 auto_update : BOOLEAN]
    /\ linkFile \in MainFiles
    /\ (~args.file => linkFile = [exists |-> FALSE, lines |-> <<>>])
    /\ env \in {"", "1"}
    /\ ProcessStart

\* Inputs for the link reader: every file within the character budget.
InitReader ==
    /\ args = [video |-> FALSE, audio |-> FALSE, file |-> TRUE,
               urls |-> <<>>, auto_update |-> FALSE]
    /\ linkFile \in {[exists |-> TRUE, lines |-> f] :
                        f \in FilesWithin(MaxFileChars, MaxFileLines)}
    /\ env = ""
    /\ ProcessStart

\* Inputs for the de-duplicator: URL lists with repetitions on both sides.
InitDedup ==
    /\ \E f \in BOOLEAN, u \in SeqsUpTo(DedupUrls, MaxDedupCli) :
          args = [video |-> FALSE, audio |-> FALSE, file |-> f,
                  urls |-> u, auto_update |-> FALSE]
    /\ linkFile \in {[exists |-> TRUE, lines |-> f] :
                        f \in SeqsUpTo(DedupUrls, MaxDedupFile)}
    /\ (~args.file => linkFile.lines = <<>>)
    /\ env = ""
    /\ ProcessStart

InitIntake == InitReader \/ InitDedup

-----------------------------------------------------------------------------
(* auto_update_yt_dlp *)

RestartEnvUnset == ""

\* env = dict(os.environ, YTDLP_UPDATED="1")
RestartEnv == "1"

UpdateGuarded == ~args.auto_update \/ env = "1"

\* the two early returns: not enabled, or already restarted once
AutoUpdateSkip ==
    /\ pc = "auto_update"
    /\ UpdateGuarded
    /\ pc' = "intake"
    /\ UNCHANGED <<args, linkFile, env, restarts, updateRuns, lastUpdate,
                   links, urls, counter, logfile_path, log, logErrors,
                   helpPrinted, exit_code, calls, outcome, hookCalls,
                   units, summary, exitStatus, exitMode>>

\* pip is run; r is what it did, execOk whether os.execvpe replaced the
\* process (an OSError from it is caught by `except Exception`)
AutoUpdateRun ==
    /\ pc = "auto_update"
    /\ ~UpdateGuarded
    /\ restarts < MaxRestarts
    /\ \E r \in UpdateOutcomes, execOk \in BOOLEAN :
         /\ updateRuns' = updateRuns + 1
         /\ lastUpdate' = r
         /\ IF r = "changed" /\ execOk
              THEN /\ env' = RestartEnv
                   /\ restarts' = restarts + 1
                   /\ pc' = "auto_update"
              ELSE /\ pc' = "intake"
                   /\ UNCHANGED <<env, restarts>>
    /\ UNCHANGED <<args, linkFile, links, urls, counter, logfile_path, log,
                   logErrors, helpPrinted, exit_code, calls, outcome,
                   hookCalls, units, summary, exitStatus,
                   exitMode>>

-----------------------------------------------------------------------------
(* main: URL intake *)

Intake ==
    /\ pc = "intake"
    /\ IF FileNotFound
         THEN /\ pc' = "exited"
              /\ exitStatus' = 1
              /\ exitMode' = "sys.exit"
              /\ UNCHANGED <<links, urls, counter, helpPrinted>>
         ELSE LET fromFile == IF args.file
                                THEN read_links_from_file(linkFile.lines)
                                ELSE <<>>
                  u == Dedupe(Collect(fromFile, args.urls))
              IN  /\ links' = fromFile
                  /\ urls' = u
                  /\ IF NoLinks(u)
                       THEN /\ helpPrinted' = TRUE
                            /\ pc' = "exited"
                            /\ exitStatus' = 2
                            /\ exitMode' = "sys.exit"
                            /\ UNCHANGED counter
                       ELSE /\ counter' = [counter EXCEPT !.total = Len(u)]
                            /\ pc' = "session"
                            /\ UNCHANGED <<helpPrinted, exitStatus, exitMode>>
    /\ lastUpdate' = "none"
    /\ UNCHANGED <<args, linkFile, env, restarts, updateRuns, logfile_path,
                   log, logErrors, exit_code, calls, outcome, hookCalls,
                   units, summary>>

-----------------------------------------------------------------------------
(* main: output directories, log file choice, session header *)

ChooseLog ==
    IF want_video THEN "video_dir"
    ELSE IF want_audio THEN "music_dir" ELSE logfile_path

SessionStart ==
    /\ pc = "session"
    /\ \E dirsOk \in BOOLEAN, ok1 \in BOOLEAN, ok2 \in BOOLEAN :
         IF ~dirsOk
           THEN \* ensure_dirs raised: uncaught, the interpreter exits 1
                /\ pc' = "exited"
                /\ exitStatus' = 1
                /\ exitMode' = "traceback"
                /\ UNCHANGED <<logfile_path, log, logErrors, exit_code>>
           ELSE LET p == ChooseLog
                    l1 == WriteLog(p, log, <<"session">>, ok1)
                    l2 == WriteLog(p, l1, <<"urls", Len(urls)>>, ok2)
                IN  /\ logfile_path' = p
                    /\ log' = l2
                    /\ logErrors' = logErrors + WriteErr(p, ok1) + WriteErr(p, ok2)
                    /\ exit_code' = 0
                    /\ pc' = "audio"
                    /\ UNCHANGED <<exitStatus, exitMode>>
    /\ UNCHANGED <<args, linkFile, env, restarts, updateRuns, lastUpdate,
                   links, urls, counter, helpPrinted, calls, outcome,
                   hookCalls, units, summary>>

-----------------------------------------------------------------------------
(* main: the download driver *)

OnlyRaiseFails(r) == r = "raised"

\* `ret != 0` or an exception out of the with-block
DriverFailed(r) == r # "ok"

AudioNextStopOnFail(r) == IF r # "ok" THEN "summary" ELSE "video"

\* control falls through from the AUDIO block to the VIDEO block
AudioNext(r) == "video"

InCall == pc \in {"audio_call", "video_call"}

CallKind == IF pc = "audio_call" THEN "audio" ELSE "video"

DriverBegin(kind, at, to) ==
    /\ pc = at
    /\ calls' = Append(calls, [kind |-> kind, urls |-> urls])
    /\ hookCalls' = 0
    /\ pc' = to
    /\ UNCHANGED <<args, linkFile, env, restarts, updateRuns, lastUpdate,
                   links, urls, counter, logfile_path, log, logErrors,
                   helpPrinted, exit_code, outcome, units,
                   summary, exitStatus, exitMode>>

DriverSkip(at, to) ==
    /\ pc = at
    /\ pc' = to
    /\ UNCHANGED <<args, linkFile, env, restarts, updateRuns, lastUpdate,
                   links, urls, counter, logfile_path, log, logErrors,
                   helpPrinted, exit_code, calls, outcome, hookCalls,
                   units, summary, exitStatus, exitMode>>

DriverEnd(kind, at, r, to) ==
    /\ pc = at
    /\ outcome' = [outcome EXCEPT ![kind] = r]
    /\ IF DriverFailed(r)
         THEN /\ counter' = [counter EXCEPT !.failed = @ + 1]
              /\ exit_code' = 1
         ELSE UNCHANGED <<counter, exit_code>>
    /\ hookCalls' = 0
    /\ pc' = to
    /\ UNCHANGED <<args, linkFile, env, restarts, updateRuns, lastUpdate,
                   links, urls, logfile_path, log, logErrors, helpPrinted,
                   calls, units, summary, exitStatus, exitMode>>

AudioSkip == ~want_audio /\ DriverSkip("audio", "video")

AudioBegin == want_audio /\ DriverBegin("audio", "audio", "audio_call")

AudioEnd ==
    \E r \in DownloadOutcomes : DriverEnd("audio", "audio_call", r, AudioNext(r))

VideoSkip == ~want_video /\ DriverSkip("video", "summary")

VideoBegin == want_video /\ DriverBegin("video", "video", "video_call")

VideoEnd ==
    \E r \in DownloadOutcomes : DriverEnd("video", "video_call", r, "summary")

-----------------------------------------------------------------------------
(* _on_progress, called by the library during a download call *)

CountsEveryStatus(status) == TRUE

\* `d.get("status") == "finished"`
IsFinished(status) == status = "finished"

NextDoneCapped(d) == IF d < counter.total THEN d + 1 ELSE d

\* `counter["done"] += 1`
NextDone(d) == d + 1

OnProgress ==
    /\ InCall
    /\ hookCalls < MaxHooks
    /\ \E status \in Statuses, ok \in BOOLEAN :
         /\ hookCalls' = hookCalls + 1
         /\ units' = IF status = "finished"
                       THEN [units EXCEPT ![CallKind] = @ + 1]
                       ELSE units
         /\ IF IsFinished(status)
              THEN LET d == NextDone(counter.done)
                   IN  /\ counter' = [counter EXCEPT !.done = d]
                       /\ log' = WriteLog(logfile_path, log,
                                          <<"progress", d, counter.total>>, ok)
                       /\ logErrors' = logErrors + WriteErr(logfile_path, ok)
              ELSE UNCHANGED <<counter, log, logErrors>>
    /\ UNCHANGED <<args, linkFile, env, pc, restarts, updateRuns, lastUpdate,
                   links, urls, logfile_path, helpPrinted, exit_code, calls,
                   outcome, summary, exitStatus, exitMode>>

-----------------------------------------------------------------------------
(* main: summary and exit *)

Finish ==
    /\ pc = "summary"
    /\ \E ok \in BOOLEAN, hard_exit \in BOOLEAN :
         /\ summary' = <<counter.done, counter.failed>>
         /\ log' = WriteLog(logfile_path, log,
                            <<"summary", counter.done, counter.failed>>, ok)
         /\ logErrors' = logErrors + WriteErr(logfile_path, ok)
         /\ exitStatus' = exit_code
         /\ exitMode' = IF hard_exit THEN "os._exit" ELSE "sys.exit"
    /\ pc' = "exited"
    /\ UNCHANGED <<args, linkFile, env, restarts, updateRuns, lastUpdate,
                   links, urls, counter, logfile_path, helpPrinted,
                   exit_code, calls, outcome, hookCalls, units>>

-----------------------------------------------------------------------------
(* Specifications *)

Next ==
    \/ AutoUpdateSkip
    \/ AutoUpdateRun
    \/ Intake
    \/ SessionStart
    \/ AudioSkip
    \/ AudioBegin
    \/ AudioEnd
    \/ VideoSkip
    \/ VideoBegin
    \/ VideoEnd
    \/ OnProgress
    \/ Finish

Spec == Init /\ [][Next]_vars

NextIntake ==
    \/ AutoUpdateSkip
    \/ Intake

SpecIntake == InitIntake /\ [][NextIntake]_vars

-----------------------------------------------------------------------------
(* Vocabulary of the properties, stated on inputs and observations only *)

BeforeIntake == pc \in {"auto_update", "intake"}

\* main() got to its summary step
RanToSummary == summary # <<>>

MissingFile == args.file /\ ~linkFile.exists

FailedKinds == {k \in Kinds : outcome[k] \in {"nonzero", "raised"}}

CalledKinds == {calls[i].kind : i \in 1..Len(calls)}

SelectedKinds ==
    IF ~args.audio /\ ~args.video THEN Kinds
    ELSE {k \in Kinds : (k = "audio" /\ args.audio) \/ (k = "video" /\ args.video)}

Range(s) == {s[i] : i \in 1..Len(s)}

\* the line's first non-whitespace character exists and is not '#'
IsLink(line) ==
    \E i \in 1..Len(line) :
        /\ line[i] \notin Whitespace
        /\ line[i] # "#"
        /\ \A j \in 1..(i - 1) : line[j] \in Whitespace

\* the line between its first and its last non-whitespace character
Trimmed(line) ==
    LET ink == {i \in 1..Len(line) : line[i] \notin Whitespace}
        lo == CHOOSE i \in ink : \A j \in ink : i <= j
        hi == CHOOSE i \in ink : \A j \in ink : j <= i
    IN  IF ink = {} THEN <<>> ELSE SubSeq(line, lo, hi)

FirstIndex(x, s) == CHOOSE i \in 1..Len(s) : s[i] = x /\ \A j \in 1..(i - 1) : s[j] # x

\* no file and no positional URLs or, more generally, nothing but blank and
\* comment lines in the file and no positional URLs
InputEmpty ==
    /\ ~MissingFile
    /\ args.urls = <<>>
    /\ \A i \in 1..Len(linkFile.lines) : ~IsLink(linkFile.lines[i])

HookStep == InCall /\ hookCalls' = hookCalls + 1

-----------------------------------------------------------------------------
(* C1 *)

\* C1 as stated: whenever the process has exited, its status is 1 if and
\* only if some driver call returned non-zero or raised.
C1_ExitOneIffDriverFailed ==
    pc = "exited" => (exitStatus = 1 <=> FailedKinds # {})

\* C1, amended: for a run that got as far as the download driver and its
\* summary, the exit status is 1 if and only if some driver call returned
\* non-zero or raised, and 0 otherwise, in normal and in hard-exit mode.
C1_ExitOneIffDriverFailedAfterDriver ==
    (pc = "exited" /\ RanToSummary) =>
        /\ exitMode \in {"sys.exit", "os._exit"}
        /\ exitStatus \in {0, 1}
        /\ (exitStatus = 1 <=> FailedKinds # {})

C1_Witness ==
    /\ pc = "exited"
    /\ exitMode = "os._exit"
    /\ outcome["audio"] = "ok"
    /\ outcome["video"] = "nonzero"
    /\ exitStatus = 1

-----------------------------------------------------------------------------
(* C2 *)

\* C2: with both kinds requested the driver calls are made one after the
\* other, audio then video, each with the full de-duplicated list; once the
\* audio call has ended, however it ended, the video call follows; and
\* failed counts exactly the kinds whose call failed.
C2_AudioThenVideoRegardless ==
    (args.audio = args.video) =>
        /\ Len(calls) <= 2
        /\ \A i \in 1..Len(calls) :
              calls[i] = [kind |-> <<"audio", "video">>[i], urls |-> urls]
        /\ (pc = "audio_call" => Len(calls) = 1)
        /\ (Len(calls) = 2 => outcome["audio"] # "none")
        /\ (outcome["audio"] # "none" => (pc = "video" \/ Len(calls) = 2))
        /\ counter.failed = Cardinality(FailedKinds)

C2_Witness ==
    /\ pc = "exited"
    /\ ~args.audio /\ ~args.video
    /\ outcome["audio"] = "raised"
    /\ outcome["video"] = "ok"
    /\ Len(urls) = 2
    /\ calls = <<[kind |-> "audio", urls |-> urls], [kind |-> "video", urls |-> urls]>>
    /\ counter.failed = 1

-----------------------------------------------------------------------------
(* C3 *)

\* C3: when the de-duplicated URL list is empty the process never gets past
\* intake: it exits with status 2 after printing the usage help, no driver
\* call is made, total stays unset and nothing is written to the log.
C3_EmptyListExitsTwo ==
    InputEmpty =>
        /\ BeforeIntake \/ pc = "exited"
        /\ calls = <<>>
        /\ counter.total = 0
        /\ log = <<>>
        /\ logfile_path = "None"
        /\ (pc = "exited" => exitStatus = 2 /\ helpPrinted)

C3_Witness ==
    /\ pc = "exited"
    /\ args.file
    /\ Len(linkFile.lines) = 1
    /\ InputEmpty
    /\ exitStatus = 2

-----------------------------------------------------------------------------
(* C4 *)

\* C4: when the path given with -f does not exist the process never gets
\* past intake: it exits with status 1, no driver call is made, no counter
\* changes and nothing is written to the log, positional URLs or not.
C4_MissingFileExitsOne ==
    MissingFile =>
        /\ BeforeIntake \/ pc = "exited"
        /\ calls = <<>>
        /\ counter = ZeroCounter
        /\ log = <<>>
        /\ (pc = "exited" => exitStatus = 1 /\ ~helpPrinted)

C4_Witness ==
    /\ pc = "exited"
    /\ MissingFile
    /\ args.urls # <<>>
    /\ exitStatus = 1

-----------------------------------------------------------------------------
(* C5 *)

\* C5: after intake, urls holds every distinct string of (file URLs followed
\* by positional URLs) exactly once, in the order of first appearance, and
\* total is its length.
C5_DedupFirstAppearance ==
    (~BeforeIntake /\ ~MissingFile) =>
        LET input == links \o args.urls
        IN  /\ Range(urls) = Range(input)
            /\ \A i, j \in 1..Len(urls) : i # j => urls[i] # urls[j]
            /\ \A i, j \in 1..Len(urls) :
                  i < j => FirstIndex(urls[i], input) < FirstIndex(urls[j], input)
            /\ counter.total = Len(urls)

C5_Witness ==
    /\ pc = "session"
    /\ links = <<<<"a">>, <<"b">>, <<"a">>>>
    /\ args.urls = <<<<"c">>, <<"b">>>>
    /\ urls = <<<<"a">>, <<"b">>, <<"c">>>>
    /\ counter.total = 3

-----------------------------------------------------------------------------
(* C6 *)

\* C6: for an existing link file, read_links_from_file returns, in file
\* order, exactly the trimmed lines whose first non-whitespace character
\* exists and is not '#'.
C6_ReaderKeepsTrimmedLinks ==
    (~BeforeIntake /\ args.file /\ linkFile.exists) =>
        LET lines == linkFile.lines
            keep == {i \in 1..Len(lines) : IsLink(lines[i])}
            nth(n) == CHOOSE i \in keep : Cardinality({j \in keep : j < i}) = n - 1
        IN  /\ Len(links) = Cardinality(keep)
            /\ \A n \in 1..Len(links) : links[n] = Trimmed(lines[nth(n)])

C6_Witness ==
    /\ ~BeforeIntake
    /\ linkFile.lines = <<<<"#">>, <<"a", " ">>, <<>>, <<"a">>>>
    /\ links = <<<<"a">>, <<"a">>>>

-----------------------------------------------------------------------------
(* C7 *)

\* C7: the kinds a driver call is made for are those the -a/-v flags select
\* (both when neither flag is given): never another kind, all of them by
\* the time of the summary, and at least one.
C7_KindsFollowFlags ==
    /\ (want_audio <=> "audio" \in SelectedKinds)
    /\ (want_video <=> "video" \in SelectedKinds)
    /\ CalledKinds \subseteq SelectedKinds
    /\ (RanToSummary => CalledKinds = SelectedKinds /\ calls # <<>>)

C7_Witness ==
    /\ pc = "exited"
    /\ ~args.audio /\ ~args.video
    /\ RanToSummary
    /\ CalledKinds = {"audio", "video"}

-----------------------------------------------------------------------------
(* C8 *)

\* C8: the chain restarts at most once; a restart happens only in a step
\* whose update succeeded and reported a change, and leaves YTDLP_UPDATED=1;
\* after a restart the update is not run again and no further restart
\* happens; a failed or raising update continues to URL intake.
C8_RestartAtMostOnce ==
    [][ /\ restarts' <= 1
        /\ (restarts' # restarts =>
              /\ restarts' = restarts + 1
              /\ updateRuns' = updateRuns + 1
              /\ lastUpdate' = "changed"
              /\ env' = "1"
              /\ pc' = "auto_update")
        /\ (restarts >= 1 =>
              /\ env = "1"
              /\ updateRuns' = updateRuns
              /\ restarts' = restarts)
        /\ ((updateRuns' # updateRuns /\ lastUpdate' \in {"raise", "fail"}) =>
              /\ pc' = "intake"
              /\ exitStatus' = -1)
      ]_vars

C8_Witness ==
    /\ pc = "exited"
    /\ RanToSummary
    /\ restarts = 1
    /\ updateRuns = 1
    /\ env = "1"

-----------------------------------------------------------------------------
(* C9 *)

\* C9: done changes only in a progress callback whose status is "finished",
\* by +1; a callback with another status changes no counter and not the log;
\* failed changes only when a driver call ends in failure, by +1; total
\* changes only when intake sets it from the de-duplicated list; a failed
\* log append changes no counter beyond its step's own and ends no run.
C9_CounterFrames ==
    [][ /\ (counter'.done # counter.done =>
              /\ HookStep
              /\ units' # units
              /\ counter' = [counter EXCEPT !.done = @ + 1])
        /\ ((HookStep /\ units' = units) =>
              /\ counter' = counter
              /\ log' = log)
        /\ (counter'.failed # counter.failed =>
              /\ InCall
              /\ pc' \in {"video", "summary"}
              /\ outcome'[CallKind] \in {"nonzero", "raised"}
              /\ counter' = [counter EXCEPT !.failed = @ + 1])
        /\ (counter'.total # counter.total =>
              /\ pc = "intake"
              /\ counter' = [counter EXCEPT !.total = Len(urls')])
        /\ (logErrors' # logErrors =>
              /\ exitMode' # "traceback"
              /\ \/ counter' = counter
                 \/ HookStep /\ counter' = [counter EXCEPT !.done = @ + 1]
              /\ (pc' = "exited" => pc = "summary" /\ exitStatus' = exit_code))
      ]_vars

C9_Witness ==
    /\ pc = "exited"
    /\ RanToSummary
    /\ logErrors > 0
    /\ counter.done = 1
    /\ counter.failed = 1
    /\ hookCalls = 0
    /\ units["audio"] = 1
    /\ outcome["video"] = "raised"

-----------------------------------------------------------------------------
(* C10 *)

\* C10: done is the number of "finished" signals of the audio call plus
\* those of the video call, and that sum is what the summary reports.
C10_DoneSumsBothKinds ==
    /\ counter.done = units["audio"] + units["video"]
    /\ (RanToSummary => summary[1] = units["audio"] + units["video"])

\* both calls succeed and signal one unit per URL: done is twice total, and
\* a progress line shows a running count above total
C10_Witness ==
    /\ pc = "exited"
    /\ outcome["audio"] = "ok"
    /\ outcome["video"] = "ok"
    /\ units["audio"] = Len(urls)
    /\ units["video"] = Len(urls)
    /\ summary[1] = 2 * counter.total
    /\ counter.done > counter.total
    /\ \E i \in 1..Len(log) : log[i][1] = "progress" /\ log[i][2] > log[i][3]

=============================================================================
